---- MODULE Spec2Model ----
(***************************************************************************)
(* Model of providers/base.ts: the CoverArtProvider base class (cleanUrl,  *)
(* extractId, isSafeRedirect, fetchPage, mergeTrackImages,                 *)
(* #createTrackImageComment) and HeadMetaPropertyProvider.findImages.      *)
(*                                                                         *)
(* Strings that the code takes apart are modelled by their syntactic       *)
(* components: a URL string is the tuple <<scheme, host, path segments,    *)
(* search>>, a URL object is the record new URL() builds from it, and a    *)
(* regular expression is a record from which match() computes the result   *)
(* array.  Strings the code only builds (comments) are TLA+ strings.       *)
(***************************************************************************)
EXTENDS Integers, Sequences, FiniteSets, TLC

VARIABLES pc, call, resp, doc, log, ret

vars == <<pc, call, resp, doc, log, ret>>

-----------------------------------------------------------------------------
(* JavaScript values *)

\* The value `undefined`, where a string is optional.
Undefined == "<undefined>"

\* The value `null` that String.prototype.match returns when nothing matches.
Null == <<>>

\* !!s for an optional string: undefined and the empty string are falsy.
Truthy(s) == s /= Undefined /\ s /= ""

\* A settled call: a returned value or a thrown error.
Return(v) == [threw |-> FALSE, value |-> v]
Throw(e) == [threw |-> TRUE, error |-> e]

Min(S) == CHOOSE x \in S : \A y \in S : x <= y

-----------------------------------------------------------------------------
(* URLs *)

\* Host names as the URL parser lower-cases them.
LowerCase(host) == IF host = "CDN.example" THEN "cdn.example" ELSE host

\* new URL(str), without a base: throws a TypeError for a string with no
\* scheme (a relative reference), otherwise builds the URL object, whose host
\* is lower-cased.
NewURL(str) ==
    IF str[1] = ""
    THEN Throw([kind |-> "TypeError", message |-> <<>>])
    ELSE Return([protocol |-> str[1], host |-> LowerCase(str[2]),
                 pathname |-> str[3], search |-> str[4]])

\* url.href: the serialisation of a URL object.
Href(url) == <<url.protocol, url.host, url.pathname, url.search>>

\* The release pages of the modelled site: https://a.example/<dir>/<id><search>.
Dirs == {"album", "artist"}
Ids == {"", "1", "2"}
Searches == {"", "?x=1"}
PageUrls ==
    {[protocol |-> "https:", host |-> "a.example", pathname |-> <<d, i>>, search |-> s] :
        d \in Dirs, i \in Ids, s \in Searches}

-----------------------------------------------------------------------------
(* Regular expressions over the cleaned URL "<host>/<dir>/<id>" *)

\* /^a\.example\/album\/(\d+)/
ReAlbum == [dirs |-> {"album"}, q |-> "+", cap |-> "id"]
\* /^a\.example\/artist\/(\d+)/
ReArtist == [dirs |-> {"artist"}, q |-> "+", cap |-> "id"]
\* /^a\.example\/album\/(\d*)/ : the group may capture the empty string
ReAlbumStar == [dirs |-> {"album"}, q |-> "*", cap |-> "id"]
\* /^a\.example\/album(?:\/(\d+))?/ : the group may not take part in the match
ReAlbumOpt == [dirs |-> {"album"}, q |-> "?", cap |-> "id"]
\* /^a\.example\/(album|artist)\// : captures the directory
ReDir == [dirs |-> {"album", "artist"}, q |-> "*", cap |-> "dir"]

\* str.match(regex) for a non-global regex: null, or the array of the whole
\* match followed by the capturing group (undefined when the group took no part).
match(str, regex) ==
    LET dir == str.pathname[1]
        id == str.pathname[2]
    IN IF str.host /= "a.example" \/ dir \notin regex.dirs THEN Null
       ELSE IF regex.cap = "dir" THEN <<"m", dir>>
       ELSE IF regex.q = "+" THEN (IF id = "" THEN Null ELSE <<"m", id>>)
       ELSE IF regex.q = "*" THEN <<"m", id>>
       ELSE <<"m", IF id = "" THEN Undefined ELSE id>>

\* m?.[1]
OptGroup1(m) == IF m = Null THEN Undefined ELSE m[2]

-----------------------------------------------------------------------------
(* Providers *)

\* urlRegex: RegExp | RegExp[]
One(re) == [isArray |-> FALSE, items |-> <<re>>]
Many(res) == [isArray |-> TRUE, items |-> res]

Providers ==
    { [name |-> "Single", urlRegex |-> One(ReAlbum)],
      [name |-> "Star", urlRegex |-> One(ReAlbumStar)],
      [name |-> "Multi", urlRegex |-> Many(<<ReArtist, ReAlbum>>)],
      [name |-> "Fallback", urlRegex |-> Many(<<ReAlbumOpt, ReDir>>)],
      [name |-> "Shadow", urlRegex |-> Many(<<ReDir, ReAlbum>>)] }

cleanUrl(url) == [host |-> url.host, pathname |-> url.pathname]

\* Array.prototype.find over a sequence of optional strings.
findDefined(ids) ==
    LET hits == {i \in 1..Len(ids) : ids[i] /= Undefined}
    IN IF hits = {} THEN Undefined ELSE ids[Min(hits)]

\* A find that keeps the last defined element.
findLastDefined(ids) ==
    LET hits == {i \in 1..Len(ids) : ids[i] /= Undefined}
    IN IF hits = {} THEN Undefined ELSE ids[CHOOSE i \in hits : \A j \in hits : j <= i]

extractIdLast(this, url) ==
    findLastDefined([i \in 1..Len(this.urlRegex.items) |->
                        OptGroup1(match(cleanUrl(url), this.urlRegex.items[i]))])

extractId(this, url) ==
    IF ~this.urlRegex.isArray
    THEN OptGroup1(match(cleanUrl(url), this.urlRegex.items[1]))
    ELSE findDefined([i \in 1..Len(this.urlRegex.items) |->
                        OptGroup1(match(cleanUrl(url), this.urlRegex.items[i]))])

isSafeRedirect(this, originalUrl, redirectedUrl) ==
    LET id == extractId(this, originalUrl)
    IN Truthy(id) /\ id = extractId(this, redirectedUrl)

-----------------------------------------------------------------------------
(* fetchPage *)

Lit(s) == [kind |-> "lit", text |-> s]
Interp(kind, v) == [kind |-> kind, text |-> v]

\* The message telling the caller to retry with the URL it already used.
RedirectMessageRetryOriginal(this, url, r) ==
    << Lit("Refusing to extract images from "),
       Interp("name", this.name),
       Lit(" provider because the original URL redirected to "),
       Interp("url", r.finalUrl),
       Lit(", which may be a different release. If this redirected URL is correct, please retry with "),
       Interp("url", Href(url)),
       Lit(" directly.") >>

\* The template literal of the error fetchPage throws, part by part.
RedirectMessage(this, url, r) ==
    << Lit("Refusing to extract images from "),
       Interp("name", this.name),
       Lit(" provider because the original URL redirected to "),
       Interp("url", r.finalUrl),
       Lit(", which may be a different release. If this redirected URL is correct, please retry with "),
       Interp("url", r.finalUrl),
       Lit(" directly.") >>

\* fetchPage trusting any redirect to a page that has an identifier.
fetchPageAnyId(this, url, r) ==
    IF r.finalUrl /= Href(url) /\ extractId(this, NewURL(r.finalUrl).value) = Undefined
    THEN Throw([kind |-> "Error", message |-> RedirectMessage(this, url, r)])
    ELSE Return(r.responseText)

\* fetchPage refusing every redirect.
fetchPageNoRedirect(this, url, r) ==
    IF r.finalUrl /= Href(url)
    THEN Throw([kind |-> "Error", message |-> RedirectMessage(this, url, r)])
    ELSE Return(r.responseText)

\* fetchPage without the guard.
fetchPageUnguarded(this, url, r) ==
    Return(r.responseText)

\* fetchPage after `await gmxhr(url)` has resolved to r.
fetchPage(this, url, r) ==
    IF r.finalUrl /= Href(url)
    THEN LET redirected == NewURL(r.finalUrl)
         IN IF redirected.threw THEN redirected
            ELSE IF ~isSafeRedirect(this, url, redirected.value)
            THEN Throw([kind |-> "Error", message |-> RedirectMessage(this, url, r)])
            ELSE Return(r.responseText)
    ELSE Return(r.responseText)

-----------------------------------------------------------------------------
(* mergeTrackImages *)

ArtworkTypeIDs ==
    [Back |-> 2, Booklet |-> 3, Front |-> 1, Liner |-> 12, Medium |-> 4, Obi |-> 5,
     Other |-> 8, Poster |-> 11, Raw |-> 14, Spine |-> 6, Sticker |-> 10, Track |-> 7,
     Tray |-> 9, Watermark |-> 13]

\* An `undefined` entry of Array<ParsedTrackImage | undefined>.
UndefinedImage == [undefined |-> TRUE]

\* ParsedTrackImage; an omitted trackNumber reads as undefined.
ParsedTrackImage(url, trackNumber) == [url |-> url, trackNumber |-> trackNumber]

\* filterNonNull over optional strings and over optional track images.
filterNonNull(arr) == SelectSeq(arr, LAMBDA x : x /= Undefined)
filterNonNullImages(arr) == SelectSeq(arr, LAMBDA x : x /= UndefinedImage)

\* groupBy(arr, (el) => el.url, (el) => el.trackNumber): a Map, which keeps its
\* keys in insertion order, as the sequence of its entries.
RECURSIVE groupByInto(_, _)
groupByInto(map, arr) ==
    IF arr = <<>> THEN map
    ELSE LET el == Head(arr)
             at == {i \in 1..Len(map) : map[i].key = el.url}
         IN groupByInto(
                IF at = {}
                THEN Append(map, [key |-> el.url, values |-> <<el.trackNumber>>])
                ELSE [map EXCEPT ![Min(at)].values = Append(@, el.trackNumber)],
                Tail(arr))

groupBy(arr) == groupByInto(<<>>, arr)

\* Array.prototype.join
RECURSIVE join(_, _)
join(arr, sep) ==
    IF arr = <<>> THEN ""
    ELSE IF Len(arr) = 1 THEN arr[1]
    ELSE arr[1] \o sep \o join(Tail(arr), sep)

\* The comment with the prefix chosen from the unfiltered track numbers.
createTrackImageCommentRawLength(trackNumbers) ==
    LET definedTrackNumbers == filterNonNull(trackNumbers)
    IN IF Len(definedTrackNumbers) = 0 THEN Undefined
       ELSE LET prefix == IF Len(trackNumbers) = 1 THEN "Track" ELSE "Tracks"
            IN prefix \o " " \o join(definedTrackNumbers, ", ")

createTrackImageComment(trackNumbers) ==
    LET definedTrackNumbers == filterNonNull(trackNumbers)
    IN IF Len(definedTrackNumbers) = 0 THEN Undefined
       ELSE LET prefix == IF Len(definedTrackNumbers) = 1 THEN "Track" ELSE "Tracks"
            IN prefix \o " " \o join(definedTrackNumbers, ", ")

\* The results.push loop over the Map: the first new URL() that throws ends it.
pushResults(imgUrlToTrackNumber) ==
    LET urls == [i \in 1..Len(imgUrlToTrackNumber) |-> NewURL(imgUrlToTrackNumber[i].key)]
        bad == {i \in 1..Len(urls) : urls[i].threw}
    IN IF bad /= {} THEN urls[Min(bad)]
       ELSE Return([i \in 1..Len(urls) |->
                [url |-> urls[i].value,
                 types |-> <<ArtworkTypeIDs.Track>>,
                 comment |-> createTrackImageComment(imgUrlToTrackNumber[i].values)]])

\* mergeTrackImages keeping the tracks that share the main image.
mergeTrackImagesKeepMain(trackImages, mainUrl) ==
    pushResults(groupBy(filterNonNullImages(trackImages)))

mergeTrackImages(trackImages, mainUrl) ==
    LET newTrackImages ==
            SelectSeq(filterNonNullImages(trackImages), LAMBDA img : img.url /= mainUrl)
        imgUrlToTrackNumber == groupBy(newTrackImages)
    IN pushResults(imgUrlToTrackNumber)

\* Image URL strings a site adapter may hand over.
ImgA == <<"https:", "cdn.example", <<"a.jpg">>, "">>
ImgB == <<"https:", "cdn.example", <<"b.jpg">>, "">>
ImgBUpper == <<"https:", "CDN.example", <<"b.jpg">>, "">>
ImgZ == <<"https:", "cdn.example", <<"z.jpg">>, "">>
ImgRelative == <<"", "", <<"cover.jpg">>, "">>

TrackUrls == {ImgA, ImgB, ImgBUpper, ImgZ, ImgRelative}
MainUrls == {ImgZ, ImgA}
TrackNumbers == {"1", "2", Undefined}
TrackEntries ==
    {UndefinedImage} \cup {ParsedTrackImage(u, n) : u \in TrackUrls, n \in TrackNumbers}

\* Longest track list explored.
MaxTracks == 3

TrackLists == UNION {[1..n -> TrackEntries] : n \in 0..MaxTracks}

-----------------------------------------------------------------------------
(* HeadMetaPropertyProvider.findImages and its collaborators *)

Meta(property, content) == [property |-> property, content |-> content]

\* Response bodies: the <meta> elements of the page's <head>, in document order.
PageCover == <<Meta("og:url", ImgZ), Meta("og:image", ImgA)>>
PageNoImage == <<Meta("og:url", ImgZ)>>
PageRelative == <<Meta("og:image", ImgRelative)>>
PageTwoImages == <<Meta("og:image", ImgBUpper), Meta("og:image", ImgA)>>
Pages == {PageCover, PageNoImage, PageRelative, PageTwoImages}

\* gmxhr's responses: the final URL is the href of some page of the site.
Responses == {[finalUrl |-> Href(u), responseText |-> t] : u \in PageUrls, t \in Pages}

\* parseDOM(html, baseUrl)
parseDOM(html, baseUrl) == [baseURI |-> baseUrl, head |-> html]

\* qs('head > meta[property="og:image"]', document): the first matching
\* element, or an error when there is none.
qs(property, document) ==
    LET hits == {i \in 1..Len(document.head) : document.head[i].property = property}
    IN IF hits = {}
       THEN Throw([kind |-> "MissingExpectedElement", message |-> <<>>])
       ELSE Return(document.head[Min(hits)])

\* The candidate list tagged with the wrong artwork type.
coverArtOfBack(coverElmt) ==
    LET u == NewURL(coverElmt.content)
    IN IF u.threw THEN u
       ELSE Return(<<[url |-> u.value, types |-> <<ArtworkTypeIDs.Back>>]>>)

\* The return statement of findImages: new URL(coverElmt.content) may throw.
coverArtOf(coverElmt) ==
    LET u == NewURL(coverElmt.content)
    IN IF u.threw THEN u
       ELSE Return(<<[url |-> u.value, types |-> <<ArtworkTypeIDs.Front>>]>>)

-----------------------------------------------------------------------------
(* Provider registry: lookup by host with exact-over-wildcard precedence *)

Bare(labels) == [wildcard |-> FALSE, labels |-> labels]
Wild(labels) == [wildcard |-> TRUE, labels |-> labels]

IsSuffix(s, t) ==
    Len(s) <= Len(t) /\ SubSeq(t, Len(t) - Len(s) + 1, Len(t)) = s

matches(pattern, host) ==
    IF pattern.wildcard THEN IsSuffix(pattern.labels, host)
    ELSE host = pattern.labels

\* Exact beats every wildcard; a longer wildcard suffix beats a shorter one.
specificity(pattern, host) ==
    IF ~matches(pattern, host) THEN -1
    ELSE IF pattern.wildcard THEN Len(pattern.labels)
    ELSE Len(host) + 1

Max(S) == CHOOSE x \in S : \A y \in S : y <= x

best(provider, host) ==
    Max({specificity(p, host) : p \in provider.supportedDomains})

\* Resolution taking the first provider that matches at all.
resolveFirstMatch(registry, host) ==
    LET cands == {i \in 1..Len(registry) : best(registry[i], host) >= 0}
    IN IF cands = {} THEN Undefined ELSE registry[Min(cands)].name

resolve(registry, host) ==
    LET cands == {i \in 1..Len(registry) : best(registry[i], host) >= 0}
        top == {i \in cands : \A j \in cands : best(registry[j], host) <= best(registry[i], host)}
    IN IF cands = {} THEN Undefined ELSE registry[Min(top)].name

DomainPatterns ==
    { Bare(<<"example", "com">>), Wild(<<"example", "com">>),
      Bare(<<"abc", "example", "xyz">>), Wild(<<"example", "xyz">>) }
Hosts == { <<"example", "com">>, <<"abc", "example", "xyz">>, <<"www", "example", "com">> }
ProviderNames == <<"P1", "P2", "P3", "P4">>

\* Largest registry explored.
MaxProviders == 2

Registries ==
    UNION { { [i \in 1..n |-> [name |-> ProviderNames[i], supportedDomains |-> d[i]]] :
                d \in [1..n -> (SUBSET DomainPatterns) \ {{}}] } : n \in 1..MaxProviders }

-----------------------------------------------------------------------------
(* State machine: one call at a time, suspended at its awaits *)

NoCall == [op |-> "none"]
NoResp == [none |-> TRUE]
NoDoc == [none |-> TRUE]
NoRet == [op |-> "none"]

Init ==
    /\ pc = "idle"
    /\ call = NoCall
    /\ resp = NoResp
    /\ doc = NoDoc
    /\ log = <<>>
    /\ ret = NoRet

\* A synchronous method runs to completion and leaves its result in ret.
ExtractId(this, url) ==
    /\ pc = "idle"
    /\ ret' = [op |-> "extractId", this |-> this, url |-> url,
               value |-> extractId(this, url)]
    /\ pc' = "done" /\ call' = NoCall /\ resp' = NoResp /\ doc' = NoDoc /\ log' = <<>>

IsSafeRedirect(this, originalUrl, redirectedUrl) ==
    /\ pc = "idle"
    /\ ret' = [op |-> "isSafeRedirect", this |-> this,
               originalUrl |-> originalUrl, redirectedUrl |-> redirectedUrl,
               value |-> isSafeRedirect(this, originalUrl, redirectedUrl)]
    /\ pc' = "done" /\ call' = NoCall /\ resp' = NoResp /\ doc' = NoDoc /\ log' = <<>>

MergeTrackImages(trackImages, mainUrl) ==
    /\ pc = "idle"
    /\ ret' = [op |-> "mergeTrackImages", trackImages |-> trackImages,
               mainUrl |-> mainUrl,
               outcome |-> mergeTrackImages(trackImages, mainUrl)]
    /\ pc' = "done" /\ call' = NoCall /\ resp' = NoResp /\ doc' = NoDoc /\ log' = <<>>

Resolve(registry, host) ==
    /\ pc = "idle"
    /\ ret' = [op |-> "resolve", registry |-> registry, host |-> host,
               value |-> resolve(registry, host)]
    /\ pc' = "done" /\ call' = NoCall /\ resp' = NoResp /\ doc' = NoDoc /\ log' = <<>>

\* fetchPage(url) is called and runs up to `await gmxhr(url)`.
FetchPage(this, url) ==
    /\ pc = "idle"
    /\ pc' = "gmxhr"
    /\ call' = [op |-> "fetchPage", this |-> this, url |-> url]
    /\ log' = <<"gmxhr">>
    /\ resp' = NoResp /\ doc' = NoDoc /\ ret' = NoRet

\* findImages(url) is called: it calls fetchPage(url), which runs up to its await.
FindImages(this, url) ==
    /\ pc = "idle"
    /\ pc' = "gmxhr"
    /\ call' = [op |-> "findImages", this |-> this, url |-> url]
    /\ log' = <<"gmxhr">>
    /\ resp' = NoResp /\ doc' = NoDoc /\ ret' = NoRet

Settled(outcome, r) ==
    [op |-> call.op, this |-> call.this, url |-> call.url, resp |-> r, outcome |-> outcome]

\* gmxhr rejects: the error propagates unmodified out of fetchPage (and findImages).
GmxhrReject ==
    /\ pc = "gmxhr"
    /\ pc' = "done"
    /\ ret' = Settled(Throw([kind |-> "NetworkError", message |-> <<>>]), NoResp)
    /\ log' = Append(log, "rejected")
    /\ UNCHANGED <<call, resp, doc>>

\* gmxhr resolves: fetchPage resumes, checks the redirect, and settles.  A
\* findImages call that awaits it is rejected with fetchPage's error, or goes
\* on to parse the page.
GmxhrResolve(r) ==
    /\ pc = "gmxhr"
    /\ resp' = r
    /\ log' = Append(log, "resolved")
    /\ LET page == fetchPage(call.this, call.url, r)
       IN IF call.op = "fetchPage" \/ page.threw
          THEN /\ pc' = "done"
               /\ ret' = Settled(page, r)
               /\ doc' = doc
          ELSE /\ pc' = "parseDOM"
               /\ doc' = [text |-> page.value]
               /\ ret' = ret
    /\ UNCHANGED call

\* findImages: parseDOM(await this.fetchPage(url), url.href)
ParseDOM ==
    /\ pc = "parseDOM"
    /\ pc' = "qs"
    /\ doc' = parseDOM(doc.text, Href(call.url))
    /\ log' = Append(log, "parseDOM")
    /\ UNCHANGED <<call, resp, ret>>

\* findImages: the og:image query and the return statement.
Qs ==
    /\ pc = "qs"
    /\ pc' = "done"
    /\ log' = Append(log, "qs")
    /\ LET coverElmt == qs("og:image", doc)
       IN ret' = Settled(IF coverElmt.threw THEN coverElmt ELSE coverArtOf(coverElmt.value),
                         resp)
    /\ UNCHANGED <<call, resp, doc>>

\* The caller takes the settled result; the next call starts afresh.
Consume ==
    /\ pc = "done"
    /\ pc' = "idle"
    /\ call' = NoCall /\ resp' = NoResp /\ doc' = NoDoc /\ log' = <<>> /\ ret' = NoRet

\* A new call starts only when none is in progress; the steps of the call in
\* progress are its resumptions.
Next ==
    \/ pc = "idle" /\ \E this \in Providers, url \in PageUrls : ExtractId(this, url)
    \/ pc = "idle" /\ \E this \in Providers, a \in PageUrls, b \in PageUrls :
                        IsSafeRedirect(this, a, b)
    \/ pc = "idle" /\ \E t \in TrackLists, m \in MainUrls : MergeTrackImages(t, m)
    \/ pc = "idle" /\ \E g \in Registries, h \in Hosts : Resolve(g, h)
    \/ pc = "idle" /\ \E this \in Providers, url \in PageUrls : FetchPage(this, url)
    \/ pc = "idle" /\ \E this \in Providers, url \in PageUrls : FindImages(this, url)
    \/ GmxhrReject
    \/ \E r \in Responses : GmxhrResolve(r)
    \/ ParseDOM
    \/ Qs
    \/ Consume

Spec == Init /\ [][Next]_vars

-----------------------------------------------------------------------------
(* Properties: the provider contract *)

\* A fetchPage or findImages call has settled after gmxhr resolved.
Fetched ==
    /\ pc = "done"
    /\ ret.op \in {"fetchPage", "findImages"}
    /\ ret.resp /= NoResp

Redirected == ret.resp.finalUrl /= Href(ret.url)

SafeRedirected == isSafeRedirect(ret.this, ret.url, NewURL(ret.resp.finalUrl).value)

IsRedirectError(outcome) == outcome.threw /\ outcome.error.kind = "Error"

\* C1: when the final URL differs from the requested one and isSafeRedirect
\* is false for the pair, the call fails with an error and hands no response
\* body to its caller.
C1_UnsafeRedirectFails ==
    (Fetched /\ Redirected /\ ~SafeRedirected)
        => (IsRedirectError(ret.outcome) /\ "value" \notin DOMAIN ret.outcome)

\* A fetchPage call redirected from release 1 to release 2 has failed.
C1_Witness ==
    /\ Fetched /\ ret.op = "fetchPage"
    /\ extractId(ret.this, ret.url) = "1"
    /\ extractId(ret.this, NewURL(ret.resp.finalUrl).value) = "2"
    /\ ret.outcome.threw

IdOf(url) == extractId(ret.this, url)

\* C2: isSafeRedirect(a, b) is true exactly when extractId(a) and
\* extractId(b) are both present and equal, whatever the identifier's value,
\* the empty captured string included.
C2_SafeIffPresentAndEqual ==
    (pc = "done" /\ ret.op = "isSafeRedirect")
        => (ret.value <=> (/\ IdOf(ret.originalUrl) /= Undefined
                           /\ IdOf(ret.redirectedUrl) /= Undefined
                           /\ IdOf(ret.originalUrl) = IdOf(ret.redirectedUrl)))

Names(message, kind, v) ==
    \E i \in 1..Len(message) : message[i].kind = kind /\ message[i].text = v

\* The literal that tells the caller to retry is followed by the URL v.
SaysRetryWith(message, v) ==
    \E i \in 1..(Len(message) - 1) :
        /\ message[i] = Lit(", which may be a different release. If this redirected URL is correct, please retry with ")
        /\ message[i + 1] = Interp("url", v)

UnsafeRedirectFailure ==
    Fetched /\ ret.op = "fetchPage" /\ Redirected /\ ~SafeRedirected /\ ret.outcome.threw

C4_SafeFetchReturnsBody ==
    (Fetched /\ ret.op = "fetchPage" /\ (~Redirected \/ SafeRedirected))
        => (~ret.outcome.threw /\ ret.outcome.value = ret.resp.responseText)

\* fetchPage has returned the body of a page it was safely redirected to.
C4_Witness ==
    /\ Fetched /\ ret.op = "fetchPage"
    /\ Redirected /\ SafeRedirected
    /\ ~ret.outcome.threw
    /\ ret.outcome.value = PageCover

\* What the i-th declared pattern captures from the call's cleaned URL.
Yield(i) == OptGroup1(match(cleanUrl(ret.url), ret.this.urlRegex.items[i]))

\* C5: extractId returns what the first pattern, in declaration order, that
\* captures something captures, and undefined when no pattern does.
C5_FirstPatternWins ==
    (pc = "done" /\ ret.op = "extractId")
        => LET n == Len(ret.this.urlRegex.items)
           IN \/ \E i \in 1..n : /\ Yield(i) /= Undefined
                                 /\ \A j \in 1..(i - 1) : Yield(j) = Undefined
                                 /\ ret.value = Yield(i)
              \/ /\ \A i \in 1..n : Yield(i) = Undefined
                 /\ ret.value = Undefined

\* Two patterns of a list capture different values and the first one's is returned.
C5_Witness ==
    /\ pc = "done" /\ ret.op = "extractId"
    /\ ret.this.urlRegex.isArray
    /\ Yield(1) /= Undefined /\ Yield(2) /= Undefined /\ Yield(1) /= Yield(2)
    /\ ret.value = Yield(1)

-----------------------------------------------------------------------------
(* Properties: the track-image merger *)

Merged == pc = "done" /\ ret.op = "mergeTrackImages"

\* The entries that are present and do not carry the main image.
IsKept(e) == e /= UndefinedImage /\ e.url /= ret.mainUrl
KeptUrls == {ret.trackImages[i].url : i \in {j \in 1..Len(ret.trackImages) : IsKept(ret.trackImages[j])}}

Parses(u) == ~NewURL(u).threw

\* The track numbers known for image URL u, in input order.
KnownNumbers(u) ==
    LET at(i) == ret.trackImages[i]
        RECURSIVE upTo(_)
        upTo(i) ==
            IF i = 0 THEN <<>>
            ELSE IF IsKept(at(i)) /\ at(i).url = u /\ at(i).trackNumber /= Undefined
            THEN Append(upTo(i - 1), at(i).trackNumber)
            ELSE upTo(i - 1)
    IN upTo(Len(ret.trackImages))

\* One candidate per kept URL string, each parsed from it and tagged Track only.
OnePerKeptUrl(value) ==
    /\ Len(value) = Cardinality(KeptUrls)
    /\ \A u \in KeptUrls : \E i \in 1..Len(value) : value[i].url = NewURL(u).value
    /\ \A i \in 1..Len(value) :
        /\ \E u \in KeptUrls : value[i].url = NewURL(u).value
        /\ value[i].types = <<ArtworkTypeIDs.Track>>
    /\ \A v \in {value[i].url : i \in 1..Len(value)} :
        Cardinality({i \in 1..Len(value) : value[i].url = v})
            = Cardinality({u \in KeptUrls : NewURL(u).value = v})

\* C6 as stated: for every list of optional track images and every main URL
\* the merge returns one Track candidate per distinct kept URL.
C6_OnePerUrlAlways ==
    Merged => (~ret.outcome.threw /\ OnePerKeptUrl(ret.outcome.value))

\* C6 amended: when every kept URL parses as an absolute URL the merge returns
\* one Track candidate per distinct kept URL (none when nothing is kept);
\* when a kept URL does not parse the merge throws and returns nothing.
C6_OnePerParsableUrl ==
    Merged => IF \A u \in KeptUrls : Parses(u)
              THEN ~ret.outcome.threw /\ OnePerKeptUrl(ret.outcome.value)
              ELSE ret.outcome.threw /\ ret.outcome.error.kind = "TypeError"

\* A list holding the main image and the same other image twice has merged
\* into one candidate.
C6_Witness ==
    /\ Merged
    /\ \E i \in 1..Len(ret.trackImages) :
        ret.trackImages[i] /= UndefinedImage /\ ret.trackImages[i].url = ret.mainUrl
    /\ \E i, j \in 1..Len(ret.trackImages) :
        i /= j /\ IsKept(ret.trackImages[i]) /\ IsKept(ret.trackImages[j])
    /\ Cardinality(KeptUrls) = 1
    /\ ~ret.outcome.threw
    /\ Len(ret.outcome.value) = 1

\* "N", "N, M", ... built from the last number backwards.
RECURSIVE CommaList(_)
CommaList(nums) ==
    IF Len(nums) = 1 THEN nums[1]
    ELSE CommaList(SubSeq(nums, 1, Len(nums) - 1)) \o ", " \o nums[Len(nums)]

ExpectedComment(nums) ==
    IF nums = <<>> THEN Undefined
    ELSE IF Len(nums) = 1 THEN "Track " \o nums[1]
    ELSE "Tracks " \o CommaList(nums)

\* C7: each candidate's comment is absent, "Track N" or "Tracks N, M, ..."
\* according to the known track numbers of its URL, in input order.
C7_CommentListsNumbersInOrder ==
    (Merged /\ ~ret.outcome.threw)
        => LET value == ret.outcome.value
           IN /\ \A i \in 1..Len(value) : \E u \in KeptUrls :
                    /\ value[i].url = NewURL(u).value
                    /\ value[i].comment = ExpectedComment(KnownNumbers(u))
              /\ \A u \in KeptUrls : \E i \in 1..Len(value) :
                    /\ value[i].url = NewURL(u).value
                    /\ value[i].comment = ExpectedComment(KnownNumbers(u))

\* Tracks 1, then an unnumbered track, then 2 of one image give "Tracks 1, 2".
C7_Witness ==
    /\ Merged
    /\ ret.trackImages = <<ParsedTrackImage(ImgB, "1"), ParsedTrackImage(ImgB, Undefined),
                           ParsedTrackImage(ImgB, "2")>>
    /\ ~ret.outcome.threw
    /\ ret.outcome.value[1].comment = "Tracks 1, 2"

-----------------------------------------------------------------------------
(* Properties: the generic meta-tag provider *)

FoundImages == pc = "done" /\ ret.op = "findImages"

\* The page reached the provider: gmxhr resolved and the redirect guard passed.
PageFetched == FoundImages /\ ret.resp /= NoResp /\ (~Redirected \/ SafeRedirected)

OgImages == SelectSeq(ret.resp.responseText, LAMBDA m : m.property = "og:image")

FrontCandidate(content) ==
    <<[url |-> NewURL(content).value, types |-> <<ArtworkTypeIDs.Front>>]>>

\* C8 as stated: a fetched page with an og:image element always yields the
\* single front candidate built from its content attribute.
C8_CandidateWheneverElementPresent ==
    (PageFetched /\ OgImages /= <<>>)
        => (~ret.outcome.threw /\ ret.outcome.value = FrontCandidate(OgImages[1].content))

\* C8 amended: findImages fails or returns exactly one candidate; a fetched
\* page whose first og:image content parses as an absolute URL yields the
\* single candidate with that URL, types [front] and no comment; a content
\* that does not parse fails with the URL parser's error; a page without the
\* element fails with the missing-element error.
C8_OneFrontCandidateOrFailure ==
    FoundImages =>
        /\ ret.outcome.threw \/ Len(ret.outcome.value) = 1
        /\ (PageFetched /\ OgImages /= <<>> /\ Parses(OgImages[1].content))
            => (/\ ~ret.outcome.threw
                /\ ret.outcome.value = FrontCandidate(OgImages[1].content)
                /\ DOMAIN ret.outcome.value[1] = {"url", "types"})
        /\ (PageFetched /\ OgImages /= <<>> /\ ~Parses(OgImages[1].content))
            => (ret.outcome.threw /\ ret.outcome.error.kind = "TypeError")
        /\ (PageFetched /\ OgImages = <<>>)
            => (ret.outcome.threw /\ ret.outcome.error.kind = "MissingExpectedElement")

\* A page with two og:image elements has yielded the first one's image.
C8_Witness ==
    /\ PageFetched
    /\ ret.resp.responseText = PageTwoImages
    /\ ~ret.outcome.threw
    /\ Href(ret.outcome.value[1].url) = <<"https:", "cdn.example", <<"b.jpg">>, "">>

IsPrefix(s, t) == Len(s) <= Len(t) /\ SubSeq(t, 1, Len(s)) = s

Logged(e) == \E i \in 1..Len(log) : log[i] = e

\* C9: within a call the collaborators run strictly in the order fetch,
\* parse, query; the parse runs only after gmxhr resolved and the redirect
\* check passed, and a failed fetch or unsafe redirect runs neither parse nor
\* query.
C9_FetchThenParseThenQuery ==
    /\ \/ IsPrefix(log, <<"gmxhr", "resolved", "parseDOM", "qs">>)
       \/ log = <<"gmxhr", "rejected">>
    /\ Logged("parseDOM")
        => (/\ call.op = "findImages"
            /\ resp /= NoResp
            /\ \/ resp.finalUrl = Href(call.url)
               \/ isSafeRedirect(call.this, call.url, NewURL(resp.finalUrl).value))
    /\ (FoundImages /\ (ret.resp = NoResp \/ (Redirected /\ ~SafeRedirected)))
        => (~Logged("parseDOM") /\ ~Logged("qs"))

\* A findImages call that was safely redirected has fetched, parsed and queried.
C9_Witness ==
    /\ PageFetched
    /\ Redirected
    /\ log = <<"gmxhr", "resolved", "parseDOM", "qs">>

-----------------------------------------------------------------------------
(* Properties: provider resolution *)

Declares(provider, pattern) == pattern \in provider.supportedDomains

\* Provider i alone declares the bare host, and another provider matches the
\* host through a wildcard.
ExactAgainstWildcard(i) ==
    /\ Declares(ret.registry[i], Bare(ret.host))
    /\ \A j \in 1..Len(ret.registry) : j /= i => ~Declares(ret.registry[j], Bare(ret.host))
    /\ \E j \in 1..Len(ret.registry) :
        /\ j /= i
        /\ \E p \in ret.registry[j].supportedDomains : p.wildcard /\ matches(p, ret.host)

\* C10: when one provider declares the bare host and another matches it only
\* through a wildcard, resolution selects the exact-match provider, whatever
\* the registration order.
C10_ExactBeatsWildcard ==
    (pc = "done" /\ ret.op = "resolve")
        => \A i \in 1..Len(ret.registry) :
            ExactAgainstWildcard(i) => ret.value = ret.registry[i].name

\* The exact-match provider was registered after the wildcard one and is selected.
C10_Witness ==
    /\ pc = "done" /\ ret.op = "resolve"
    /\ ret.host = <<"abc", "example", "xyz">>
    /\ Len(ret.registry) >= 2
    /\ ret.registry[1].supportedDomains = {Wild(<<"example", "xyz">>)}
    /\ ExactAgainstWildcard(2)
    /\ ret.value = ret.registry[2].name

====
